---- MODULE Spec2Model ----
(***************************************************************************)
(* Portfolio lambda of finance-analysis-app: the position store, the       *)
(* addPosition handler and the bulk import pipeline (parse, enrich with    *)
(* the quote service, conditional save), one request per slot, every await *)
(* a separate step.                                                        *)
(***************************************************************************)
EXTENDS Integers, Sequences, FiniteSets, TLC

\* ------------------------------------------------------------------ bounds
\* Requests handled in one behaviour (one slot per request).
MaxRequests == 2
\* Data lines of one uploaded document.
MaxRows == 2
\* Requests of the portfolio handlers that may come on top of those.
MaxPortfolioRequests == 1

\* ------------------------------------------------------------- value sets
Users == {"u1", "u2"}
\* "p1" is a portfolio id a caller supplies to createPortfolio; "aapl" is a
\* ticker as a caller may spell it.
PortfolioIds == {"default", "p1"}
Tickers == {"AAPL", "MSFT", "aapl"}
\* One slot per request; the first MaxRequests slots are those of the
\* behaviours of addPosition and the import alone.
Procs == 1..(MaxRequests + MaxPortfolioRequests)
PositionProcs == 1..MaxRequests

\* JavaScript's NaN (parseFloat of a non-number, Number(undefined)): an
\* integer outside the data so that it can sit where a number sits; every
\* comparison goes through isNaN first, as IEEE comparisons with NaN are false.
NaN == -1000
isNaN(x) == x = NaN
\* x is truthy as a JavaScript number: neither 0 nor NaN.
Truthy(x) == ~isNaN(x) /\ x # 0
\* shares > 0 in JavaScript: false for NaN.
Positive(x) == ~isNaN(x) /\ x > 0

\* parseFloat over the cells the model feeds it; undefined and "" give NaN.
parseFloat(s) ==
  CASE s = "0" -> 0
    [] s = "3" -> 3
    [] s = "5" -> 5
    [] s = "9" -> 9
    [] OTHER -> NaN

\* ---------------------------------------------------------- position rows
\* The key of the position table is (portfolioId, ticker); userId is a plain
\* attribute. createdAt is the number of the request that wrote the row,
\* updatedAt the number of the request that wrote to it last.
Keys == PortfolioIds \X Tickers
NoRow == [userId |-> "", shares |-> 0, purchasePrice |-> 0,
          currentPrice |-> 0, createdAt |-> 0, updatedAt |-> 0]

VARIABLES
  portfolios,   \* PORTFOLIO_TABLE: set of <<userId, portfolioId>>
  positions,    \* POSITION_TABLE: [Keys -> row or NoRow]
  pc,           \* [Procs -> position of the request in its handler]
  req           \* [Procs -> the request's arguments, locals and response]

vars == <<portfolios, positions, pc, req>>

\* ------------------------------------------------------- request records
NoPosition == [ticker |-> "", shares |-> 0, purchasePrice |-> 0, currentPrice |-> 0]
NoCsv == [kind |-> "", header |-> <<>>, lines |-> <<>>]
NoResults == [totalPositions |-> 0, validPositions |-> 0, addedPositions |-> 0,
              errors |-> 0, warnings |-> <<>>]
\* A field the body of a request does not carry.
Absent == -2000
NoUpdates == [shares |-> Absent, purchasePrice |-> Absent]

\* A slot before its request arrives. status 0: no response yet.
NoRequest ==
  [op |-> "none", userId |-> "", portfolioId |-> "",
   position |-> NoPosition,       \* addPosition: the request body
   csv |-> NoCsv,                 \* import: the request body
   cands |-> <<>>,                \* import: positions, the parser's output
   enriched |-> <<>>,             \* import: enrichedPositions
   rows |-> <<>>,                 \* import: the candidate each enriched position came from
   i |-> 0,                       \* import: candidates already enriched
   j |-> 0,                       \* import: enriched rows already put
   results |-> NoResults,         \* import: importResults
   lookups |-> <<>>,              \* import: the quote service's answers, per candidate
   saveLog |-> <<>>,              \* import: what the put of each enriched row did
   warnRows |-> <<>>,             \* import: the candidate each warning was pushed for
   updates |-> NoUpdates,         \* updatePosition: the request body
   ticker |-> "",                 \* updatePosition, deletePosition: the path parameter
   existing |-> NoRow,            \* updatePosition: existingItem.Item
   items |-> {},                  \* the Items of the request's query
   deleted |-> 0,                 \* deletePortfolio: deletedPositions
   view |-> <<>>,                 \* getPositions: the positions the page shows
   pre |-> [k \in Keys |-> NoRow],\* the position table when the request arrived
   prePortfolios |-> {},          \* the portfolio table when the request arrived
   status |-> 0]

\* ------------------------------------------------------------ the tables
\* Fault: checkPortfolioExists answering true for a missing portfolio.
checkPortfolioExistsAlways(userId, portfolioId, readFails) == ~readFails

\* checkPortfolioExists: a failed read is answered false.
checkPortfolioExists(userId, portfolioId, readFails) ==
  ~readFails /\ <<userId, portfolioId>> \in portfolios

Exists(key) == positions[key] # NoRow

Init ==
  /\ portfolios = {}
  /\ positions = [k \in Keys |-> NoRow]
  /\ pc = [p \in Procs |-> "new"]
  /\ req = [p \in Procs |-> NoRequest]

\* A response ends the request.
Respond(p, r, status) ==
  /\ req' = [req EXCEPT ![p] = [r EXCEPT !.status = status]]
  /\ pc' = [pc EXCEPT ![p] = "done"]

\* Slots are taken in order.
MayStart(p) == pc[p] = "new" /\ \A q \in Procs : q < p => pc[q] # "new"

\* ---------------------------------------------------------- getPortfolios
\* The default portfolio is materialised when the user has none.
getPortfolios(userId) ==
  /\ \A pid \in PortfolioIds : <<userId, pid>> \notin portfolios
  /\ portfolios' = portfolios \cup {<<userId, "default">>}
  /\ UNCHANGED <<positions, pc, req>>

\* ------------------------------------------------------------ addPosition
\* The mock current price: purchasePrice * (1 + (random * 0.2 - 0.1)).
MockPrices(purchasePrice) == {(purchasePrice * 9) \div 10, purchasePrice}

\* Entry: portfolio check, then the two validations.
addPositionStart(p, userId, portfolioId, position, readFails) ==
  /\ MayStart(p)
  /\ LET r == [NoRequest EXCEPT !.op = "add", !.userId = userId,
                                !.portfolioId = portfolioId,
                                !.position = position, !.pre = positions]
     IN  IF ~checkPortfolioExists(userId, portfolioId, readFails)
           THEN Respond(p, r, 404)
         ELSE IF position.ticker = "" \/ position.shares = 0
           THEN Respond(p, r, 400)
         ELSE IF isNaN(position.shares) \/ isNaN(position.purchasePrice)
           THEN Respond(p, r, 400)
         ELSE /\ req' = [req EXCEPT ![p] = r]
              /\ pc' = [pc EXCEPT ![p] = "get"]
  /\ UNCHANGED <<portfolios, positions>>

\* Fault: addPosition without its existence read's 409 branch.
addPositionGetUnchecked(p, readFails) ==
  /\ pc[p] = "get"
  /\ IF readFails THEN Respond(p, req[p], 500)
     ELSE pc' = [pc EXCEPT ![p] = "put"] /\ UNCHANGED req
  /\ UNCHANGED <<portfolios, positions>>

\* The existence read of addPosition.
addPositionGet(p, readFails) ==
  /\ pc[p] = "get"
  /\ LET r == req[p]
     IN  IF readFails THEN Respond(p, r, 500)
         ELSE IF Exists(<<r.portfolioId, r.position.ticker>>)
           THEN Respond(p, r, 409)
         ELSE /\ pc' = [pc EXCEPT ![p] = "put"]
              /\ UNCHANGED req
  /\ UNCHANGED <<portfolios, positions>>

\* The item addPosition writes.
AddItem(p, r, mock) ==
  [userId |-> r.userId, shares |-> r.position.shares,
   purchasePrice |-> r.position.purchasePrice,
   currentPrice |-> IF r.position.currentPrice = 0 THEN mock
                    ELSE r.position.currentPrice,
   createdAt |-> p, updatedAt |-> p]

\* The write of addPosition: a plain put of the request body.
addPositionPut(p, mock, writeFails) ==
  /\ pc[p] = "put"
  /\ LET r == req[p]
     IN  IF writeFails
           THEN Respond(p, r, 500) /\ UNCHANGED positions
         ELSE /\ positions' = [positions EXCEPT
                   ![<<r.portfolioId, r.position.ticker>>] = AddItem(p, r, mock)]
              /\ Respond(p, r, 201)
  /\ UNCHANGED portfolios

\* ----------------------------------------------------- import: the parser
\* Column names the header tests accept, among the names the model uses:
\* /symbol|ticker|security|stock/i, /company|name|description/i,
\* /shares|quantity|amount|units/i, /price|cost|rate/i, /date|purchased/i.
TickerCols == {"Symbol"}
CompanyCols == {"Company"}
SharesCols == {"Shares"}
PriceCols == {"Price", "Purchase Price"}
DateCols == {"Purchase Date"}

\* header.findIndex, counted from 1; 0 is JavaScript's -1.
findIndex(header, cols) ==
  IF \E n \in 1..Len(header) : header[n] \in cols
    THEN CHOOSE n \in 1..Len(header) :
           /\ header[n] \in cols
           /\ \A m \in 1..(n - 1) : header[m] \notin cols
    ELSE 0

\* values[index] is undefined past the end of the line.
Undefined(values, index) == index > Len(values)
\* values[index].trim() raises a TypeError on undefined.
TrimThrows(values, index) == index > 0 /\ Undefined(values, index)
\* index >= 0 ? values[index].trim() : "". Cells carry no surrounding blanks.
TextCell(values, index) == IF index > 0 THEN values[index] ELSE ""
\* index >= 0 ? parseFloat(values[index]) : 0
NumberCell(values, index) ==
  IF index = 0 THEN 0
  ELSE IF Undefined(values, index) THEN NaN
  ELSE parseFloat(values[index])

\* if (!lines[i].trim()) continue
Blank(values) == values = <<"">>

\* One data line raises while its cells are read.
LineThrows(header, values) ==
  \/ TrimThrows(values, findIndex(header, TickerCols))
  \/ TrimThrows(values, findIndex(header, CompanyCols))
  \/ TrimThrows(values, findIndex(header, DateCols))

\* The candidate of one data line.
Candidate(header, values) ==
  LET price == NumberCell(values, findIndex(header, PriceCols))
  IN  [ticker |-> TextCell(values, findIndex(header, TickerCols)),
       companyName |-> TextCell(values, findIndex(header, CompanyCols)),
       shares |-> NumberCell(values, findIndex(header, SharesCols)),
       purchasePrice |-> IF ~isNaN(price) THEN price ELSE 0]

\* if ((ticker || companyName) && !isNaN(shares) && shares > 0)
Retained(c) ==
  /\ c.ticker # "" \/ c.companyName # ""
  /\ ~isNaN(c.shares)
  /\ c.shares > 0

RECURSIVE CsvPositions(_, _)
\* The loop over the data lines, for a document no line of which raises.
CsvPositions(header, lines) ==
  IF lines = <<>> THEN <<>>
  ELSE LET values == Head(lines)
           rest == CsvPositions(header, Tail(lines))
       IN  IF Blank(values) THEN rest
           ELSE IF Retained(Candidate(header, values))
             THEN <<Candidate(header, values)>> \o rest
           ELSE rest

CsvThrows(header, lines) ==
  \E n \in 1..Len(lines) : ~Blank(lines[n]) /\ LineThrows(header, lines[n])

\* ------------------------------------------------- the quote service
\* A search answer: ok is false when the call fails or the body has no quotes
\* array; quotes are the results in the service's order.
SearchFailed == [ok |-> FALSE, quotes |-> <<>>]
Found(quotes) == [ok |-> TRUE, quotes |-> quotes]
Q(symbol, quoteType) == [symbol |-> symbol, quoteType |-> quoteType]
SearchResponses ==
  { SearchFailed,
    Found(<<>>),
    Found(<<Q("AAPL", "EQUITY")>>),
    Found(<<Q("AAPL", "EQUITY"), Q("MSFT", "EQUITY")>>),
    Found(<<Q("MSFT", "ETF"), Q("AAPL", "EQUITY")>>),
    Found(<<Q("AAPL", "MUTUALFUND"), Q("MSFT", "ETF")>>),
    Found(<<Q("MSFT", "ETF"), Q("AAPL", "ETF")>>),
    Found(<<Q("AAPL", "MUTUALFUND")>>) }

\* A quote answer: found is false when the call fails or has no result.
NoQuote == [found |-> FALSE, price |-> 0]
QuoteResponses ==
  {NoQuote, [found |-> TRUE, price |-> 7], [found |-> TRUE, price |-> 0]}

\* data.quotes.find(quote => quote.quoteType === quoteType): the symbol of
\* the first such result, "" when there is none.
find(quotes, quoteType) ==
  IF \E n \in 1..Len(quotes) : quotes[n].quoteType = quoteType
    THEN quotes[CHOOSE n \in 1..Len(quotes) :
                  /\ quotes[n].quoteType = quoteType
                  /\ \A m \in 1..(n - 1) : quotes[m].quoteType # quoteType].symbol
    ELSE ""

\* Fault: the ETF result is preferred to the equity result.
lookupTickerEtfFirst(response) ==
  IF ~response.ok THEN ""
  ELSE IF find(response.quotes, "ETF") # "" THEN find(response.quotes, "ETF")
  ELSE find(response.quotes, "EQUITY")

\* The symbol of the TickerInfo returned, "" for null.
lookupTickerByCompanyName(response) ==
  IF ~response.ok THEN ""
  ELSE IF find(response.quotes, "EQUITY") # "" THEN find(response.quotes, "EQUITY")
  ELSE find(response.quotes, "ETF")

\* ---------------------------------------------------- import: the warnings
Warn(kind, subject) == [kind |-> kind, subject |-> subject]

\* ------------------------------------------------------ import: the entry
\* Documents: a header line and data lines, each split at the commas.
Header4 == <<"Symbol", "Company", "Shares", "Price">>
CsvLines ==
  { <<"AAPL", "", "5", "9">>,      \* a ticker, shares and a price
    <<"MSFT", "", "3", "0">>,      \* a ticker and no price
    <<"", "Acme", "5", "9">>,      \* a company name and no ticker
    <<"AAPL", "", "", "9">>,       \* shares missing
    <<"MSFT">> }                   \* a line that stops after its first cell

RECURSIVE SeqsUpTo(_, _)
SeqsUpTo(S, n) ==
  IF n = 0 THEN {<<>>}
  ELSE LET shorter == SeqsUpTo(S, n - 1)
       IN  shorter \cup {Append(q, x) : q \in shorter, x \in S}

CsvBodies ==
  {[kind |-> "csv", header |-> Header4, lines |-> l] : l \in SeqsUpTo(CsvLines, MaxRows)}
    \cup {[kind |-> "other", header |-> <<>>, lines |-> <<>>]}

\* importPortfolioData and handleCsvImport up to the first quote lookup. A
\* TypeError raised by the parser leaves through the handler's catch: 500.
importStart(p, userId, portfolioId, csv, readFails) ==
  /\ MayStart(p)
  /\ LET r == [NoRequest EXCEPT !.op = "import", !.userId = userId,
                                !.portfolioId = portfolioId,
                                !.csv = csv, !.pre = positions]
     IN  IF ~checkPortfolioExists(userId, portfolioId, readFails)
           THEN Respond(p, r, 404)
         ELSE IF csv.kind # "csv"
           THEN Respond(p, r, 400)
         ELSE IF CsvThrows(csv.header, csv.lines)
           THEN Respond(p, r, 500)
         ELSE LET cands == CsvPositions(csv.header, csv.lines)
                  r2 == [r EXCEPT !.cands = cands,
                                  !.results.totalPositions = Len(cands)]
              IN  IF cands = <<>>
                    THEN Respond(p, r2, 200)
                    ELSE /\ req' = [req EXCEPT ![p] = r2]
                         /\ pc' = [pc EXCEPT ![p] = "enrich"]
  /\ UNCHANGED <<portfolios, positions>>

\* ------------------------------------------- import: the enrichment loop
\* if (!ticker && position.companyName): the row is looked up by name.
NeedsLookup(position) == position.ticker = "" /\ position.companyName # ""

\* The ticker of the row after the lookup branch, "" when none.
ResolvedTicker(position, search) ==
  IF NeedsLookup(position) THEN lookupTickerByCompanyName(search)
  ELSE position.ticker

\* if (stockData && stockData.price)
Validated(quote) == quote.found /\ Truthy(quote.price)

\* Fault: the purchase price is replaced whenever a quote was obtained.
BackfilledWhateverThePrice(position, quote) == Validated(quote)

\* if (!position.purchasePrice || position.purchasePrice === 0)
Backfilled(position, quote) == Validated(quote) /\ ~Truthy(position.purchasePrice)

\* position.purchasePrice after the quote branch.
EnrichedPurchasePrice(position, quote) ==
  IF Backfilled(position, quote) THEN quote.price ELSE position.purchasePrice

\* Fault: currentPrice without the fallback to purchasePrice.
EnrichedCurrentPriceNoFallback(position, quote) ==
  IF Validated(quote) THEN quote.price ELSE 0

\* currentPrice: currentPrice || position.purchasePrice
EnrichedCurrentPrice(position, quote) ==
  LET currentPrice == IF Validated(quote) THEN quote.price ELSE 0
  IN  IF Truthy(currentPrice) THEN currentPrice
      ELSE EnrichedPurchasePrice(position, quote)

\* The row is skipped by one of the two "continue" branches.
Skipped(position, search) == ResolvedTicker(position, search) = ""

\* Fault: the warning of a failed name lookup does not name the company.
EnrichWarningsUnnamed(position, search, quote) ==
  LET ticker == ResolvedTicker(position, search)
  IN  IF ticker = "" THEN <<Warn("lookup failed", "")>>
      ELSE (IF NeedsLookup(position) THEN <<Warn("looked up", ticker)>> ELSE <<>>)
           \o (IF Backfilled(position, quote) THEN <<Warn("backfill", ticker)>>
               ELSE IF ~Validated(quote) THEN <<Warn("not validated", ticker)>>
               ELSE <<>>)

\* The warnings one pass of the loop body pushes, in order.
EnrichWarnings(position, search, quote) ==
  LET ticker == ResolvedTicker(position, search)
  IN  IF NeedsLookup(position) /\ ticker = ""
        THEN <<Warn("lookup failed", position.companyName)>>
      ELSE IF ticker = ""
        THEN <<Warn("missing", "")>>
      ELSE (IF NeedsLookup(position) THEN <<Warn("looked up", ticker)>> ELSE <<>>)
           \o (IF Backfilled(position, quote) THEN <<Warn("backfill", ticker)>>
               ELSE IF ~Validated(quote) THEN <<Warn("not validated", ticker)>>
               ELSE <<>>)

\* The item pushed on enrichedPositions.
EnrichedPosition(position, search, quote) ==
  [ticker |-> ResolvedTicker(position, search),
   shares |-> position.shares,
   purchasePrice |-> EnrichedPurchasePrice(position, quote),
   currentPrice |-> EnrichedCurrentPrice(position, quote),
   lookedUp |-> NeedsLookup(position)]

\* Fault: a skipped row is not counted in errors.
EnrichResultsSkippedUncounted(results, position, search, quote) ==
  [results EXCEPT
     !.warnings = @ \o EnrichWarnings(position, search, quote),
     !.validPositions = IF ~Skipped(position, search) /\ Validated(quote)
                          THEN @ + 1 ELSE @]

\* importResults after one pass of the loop body.
EnrichResults(results, position, search, quote) ==
  [results EXCEPT
     !.warnings = @ \o EnrichWarnings(position, search, quote),
     !.errors = IF Skipped(position, search) THEN @ + 1 ELSE @,
     !.validPositions = IF ~Skipped(position, search) /\ Validated(quote)
                          THEN @ + 1 ELSE @]

\* One pass of the loop of enrichPositionsWithYahooFinance: the name search
\* when the row has no ticker, then the quote when it has one by now. The
\* answers are those of the calls the pass makes; a call not made has none.
enrichRow(p, search, quote) ==
  /\ pc[p] = "enrich"
  /\ LET r == req[p]
         position == r.cands[r.i + 1]
     IN  /\ ~NeedsLookup(position) => search = SearchFailed
         /\ Skipped(position, search) => quote = NoQuote
         /\ LET r2 == [r EXCEPT
                        !.i = @ + 1,
                        !.results = EnrichResults(@, position, search, quote),
                        !.enriched = IF Skipped(position, search) THEN @
                                     ELSE Append(@, EnrichedPosition(position, search, quote)),
                        !.rows = IF Skipped(position, search) THEN @
                                 ELSE Append(@, r.i + 1),
                        !.lookups = Append(@, [search |-> search, quote |-> quote]),
                        !.warnRows = @ \o [n \in 1..Len(EnrichWarnings(position, search, quote))
                                             |-> r.i + 1]]
            IN  IF r2.i < Len(r.cands)
                  THEN req' = [req EXCEPT ![p] = r2] /\ UNCHANGED pc
                ELSE IF r2.enriched = <<>>
                  THEN Respond(p, r2, 200)
                ELSE /\ req' = [req EXCEPT ![p] = r2]
                     /\ pc' = [pc EXCEPT ![p] = "save"]
  /\ UNCHANGED <<portfolios, positions>>

\* ------------------------------------------------- import: the save loop
\* attribute_not_exists(attr) on the item stored under the key of the put;
\* portfolioId and ticker are the key attributes, present in every item.
attribute_not_exists(key) == ~Exists(key)

\* Fault: the import put without its ConditionExpression.
ConditionExpressionDropped(key) == TRUE

\* ConditionExpression of the import put:
\* "attribute_not_exists(portfolioId) OR attribute_not_exists(ticker)".
ConditionExpression(key) == attribute_not_exists(key) \/ attribute_not_exists(key)

\* Fault: the import writes no current price.
ImportItemWithoutCurrentPrice(p, r, position) ==
  [userId |-> r.userId, shares |-> position.shares,
   purchasePrice |-> position.purchasePrice,
   currentPrice |-> 0,
   createdAt |-> p, updatedAt |-> p]

\* The item the import writes.
ImportItem(p, r, position) ==
  [userId |-> r.userId, shares |-> position.shares,
   purchasePrice |-> position.purchasePrice,
   currentPrice |-> position.currentPrice,
   createdAt |-> p, updatedAt |-> p]

\* Fault: the put of the save loop without its condition.
SaveOutcomeUnconditional(key, writeFails) ==
  IF writeFails THEN "error" ELSE "added"

\* What one pass of the save loop does: "added", "exists" (the conditional
\* check failed) or "error" (any other failure of the put).
SaveOutcome(key, writeFails) ==
  IF writeFails THEN "error"
  ELSE IF ConditionExpression(key) THEN "added"
  ELSE "exists"

\* Fault: the catch of the save loop swallows a failed write uncounted.
SaveResultsErrorsSwallowed(results, position, outcome) ==
  [results EXCEPT
     !.addedPositions = IF outcome = "added" THEN @ + 1 ELSE @,
     !.warnings = IF outcome = "exists"
                    THEN Append(@, Warn("exists", position.ticker)) ELSE @]

\* importResults after one pass of the save loop.
SaveResults(results, position, outcome) ==
  [results EXCEPT
     !.addedPositions = IF outcome = "added" THEN @ + 1 ELSE @,
     !.warnings = IF outcome = "exists"
                    THEN Append(@, Warn("exists", position.ticker)) ELSE @,
     !.errors = IF outcome = "error" THEN @ + 1 ELSE @]

\* One pass of the loop of saveImportedPositions; the response after the last.
saveRow(p, writeFails) ==
  /\ pc[p] = "save"
  /\ LET r == req[p]
         position == r.enriched[r.j + 1]
         key == <<r.portfolioId, position.ticker>>
         outcome == SaveOutcome(key, writeFails)
         r2 == [r EXCEPT !.j = @ + 1,
                         !.results = SaveResults(@, position, outcome),
                         !.saveLog = Append(@, outcome),
                         !.warnRows = IF outcome = "exists"
                                        THEN Append(@, r.rows[r.j + 1]) ELSE @]
     IN  /\ positions' = IF outcome = "added"
                           THEN [positions EXCEPT ![key] = ImportItem(p, r, position)]
                           ELSE positions
         /\ IF r2.j < Len(r.enriched)
              THEN req' = [req EXCEPT ![p] = r2] /\ UNCHANGED pc
              ELSE Respond(p, r2, 200)
  /\ UNCHANGED portfolios

\* ------------------------------------- the import of the deployed lambda
\* cdk-infra/lambda/portfolio/index.ts handles the HTML table alone: cells
\* 2, 3 and 4 of a row are the ticker, the price and the shares.
HtmlRows ==
  { <<"1", "AAPL", "9", "5">>,
    <<"2", "MSFT", "9", "3">>,
    <<"3", "MSFT", "", "3">> }

HtmlBodies ==
  {[kind |-> "html", header |-> <<>>, lines |-> l] : l \in SeqsUpTo(HtmlRows, MaxRows)}
    \cup {[kind |-> "other", header |-> <<>>, lines |-> <<>>]}

HtmlCandidate(cellValues) ==
  [ticker |-> cellValues[2], companyName |-> "",
   shares |-> parseFloat(cellValues[4]),
   purchasePrice |-> parseFloat(cellValues[3])]

\* if (ticker && !isNaN(shares) && !isNaN(purchasePrice) && shares > 0)
HtmlRetained(cellValues) ==
  /\ Len(cellValues) >= 4
  /\ HtmlCandidate(cellValues).ticker # ""
  /\ ~isNaN(HtmlCandidate(cellValues).shares)
  /\ ~isNaN(HtmlCandidate(cellValues).purchasePrice)
  /\ HtmlCandidate(cellValues).shares > 0

RECURSIVE HtmlPositions(_)
HtmlPositions(rows) ==
  IF rows = <<>> THEN <<>>
  ELSE IF HtmlRetained(Head(rows))
    THEN <<HtmlCandidate(Head(rows))>> \o HtmlPositions(Tail(rows))
  ELSE HtmlPositions(Tail(rows))

\* The handler returns nothing for a body that is no HTML table; the gateway
\* answers a lambda that returned no response with 502.
legacyImportStart(p, userId, portfolioId, html, readFails) ==
  /\ MayStart(p)
  /\ LET r == [NoRequest EXCEPT !.op = "legacyImport", !.userId = userId,
                                !.portfolioId = portfolioId,
                                !.csv = html, !.pre = positions]
     IN  IF ~checkPortfolioExists(userId, portfolioId, readFails)
           THEN Respond(p, r, 404)
         ELSE IF html.kind # "html"
           THEN Respond(p, r, 502)
         ELSE LET cands == HtmlPositions(html.lines)
                  r2 == [r EXCEPT !.cands = cands,
                                  !.results.totalPositions = Len(cands),
                                  !.results.validPositions = Len(cands)]
              IN  IF cands = <<>>
                    THEN Respond(p, r2, 400)
                    ELSE /\ req' = [req EXCEPT ![p] = r2]
                         /\ pc' = [pc EXCEPT ![p] = "legacySave"]
  /\ UNCHANGED <<portfolios, positions>>

\* The item the deployed import writes: the current price is the mock.
LegacyItem(p, r, position, mock) ==
  [userId |-> r.userId, shares |-> position.shares,
   purchasePrice |-> position.purchasePrice,
   currentPrice |-> mock,
   createdAt |-> p, updatedAt |-> p]

\* importResults after one put of the deployed import: its catch counts
\* every failure, the failed condition included, as an error.
LegacySaveResults(results, outcome) ==
  [results EXCEPT
     !.addedPositions = IF outcome = "added" THEN @ + 1 ELSE @,
     !.errors = IF outcome # "added" THEN @ + 1 ELSE @]

\* One pass of the save loop of the deployed import.
legacySaveRow(p, mock, writeFails) ==
  /\ pc[p] = "legacySave"
  /\ LET r == req[p]
         position == r.cands[r.j + 1]
         key == <<r.portfolioId, position.ticker>>
         outcome == SaveOutcome(key, writeFails)
         r2 == [r EXCEPT !.j = @ + 1,
                         !.results = LegacySaveResults(@, outcome),
                         !.saveLog = Append(@, outcome)]
     IN  /\ mock \in MockPrices(position.purchasePrice)
         /\ positions' = IF outcome = "added"
                           THEN [positions EXCEPT ![key] = LegacyItem(p, r, position, mock)]
                           ELSE positions
         /\ IF r2.j < Len(r.cands)
              THEN req' = [req EXCEPT ![p] = r2] /\ UNCHANGED pc
              ELSE Respond(p, r2, 200)
  /\ UNCHANGED portfolios

\* ------------------------------------------------- the portfolio handlers
\* A request of the portfolio handlers as it arrives.
PortfolioRequest(op, userId, portfolioId) ==
  [NoRequest EXCEPT !.op = op, !.userId = userId, !.portfolioId = portfolioId,
                    !.pre = positions, !.prePortfolios = portfolios]

\* The portfolio ids of the rows a query of the portfolio table returns.
PortfoliosOf(userId) == {pid \in PortfolioIds : <<userId, pid>> \in portfolios}

\* getPortfolios as a request: the query of the user's portfolios.
getPortfoliosQuery(p, userId, readFails) ==
  /\ MayStart(p)
  /\ LET r == PortfolioRequest("getPortfolios", userId, "")
     IN  IF readFails THEN Respond(p, r, 500)
         ELSE IF PortfoliosOf(userId) = {}
           THEN /\ req' = [req EXCEPT ![p] = r]
                /\ pc' = [pc EXCEPT ![p] = "materialise"]
         ELSE Respond(p, [r EXCEPT !.items = PortfoliosOf(userId)], 200)
  /\ UNCHANGED <<portfolios, positions>>

\* The put of the default portfolio, answered with that portfolio alone.
getPortfoliosPut(p, writeFails) ==
  /\ pc[p] = "materialise"
  /\ IF writeFails
       THEN Respond(p, req[p], 500) /\ UNCHANGED portfolios
       ELSE /\ portfolios' = portfolios \cup {<<req[p].userId, "default">>}
            /\ Respond(p, [req[p] EXCEPT !.items = {"default"}], 200)
  /\ UNCHANGED positions

\* createPortfolio with the id the body carries: the existence check.
createPortfolioStart(p, userId, portfolioId, readFails) ==
  /\ MayStart(p)
  /\ LET r == PortfolioRequest("createPortfolio", userId, portfolioId)
     IN  IF checkPortfolioExists(userId, portfolioId, readFails)
           THEN Respond(p, r, 409)
         ELSE /\ req' = [req EXCEPT ![p] = r]
              /\ pc' = [pc EXCEPT ![p] = "createPut"]
  /\ UNCHANGED <<portfolios, positions>>

\* createPortfolio: the put.
createPortfolioPut(p, writeFails) ==
  /\ pc[p] = "createPut"
  /\ IF writeFails
       THEN Respond(p, req[p], 500) /\ UNCHANGED portfolios
       ELSE /\ portfolios' = portfolios \cup {<<req[p].userId, req[p].portfolioId>>}
            /\ Respond(p, req[p], 201)
  /\ UNCHANGED positions

\* Fault: deletePortfolio without the guard of the default portfolio.
deletePortfolioStartUnguarded(p, userId, portfolioId, readFails) ==
  /\ MayStart(p)
  /\ LET r == PortfolioRequest("deletePortfolio", userId, portfolioId)
     IN  IF ~checkPortfolioExists(userId, portfolioId, readFails)
           THEN Respond(p, r, 404)
         ELSE /\ req' = [req EXCEPT ![p] = r]
              /\ pc' = [pc EXCEPT ![p] = "delPortfolio"]
  /\ UNCHANGED <<portfolios, positions>>

\* deletePortfolio: the existence check and the guard of the default.
deletePortfolioStart(p, userId, portfolioId, readFails) ==
  /\ MayStart(p)
  /\ LET r == PortfolioRequest("deletePortfolio", userId, portfolioId)
     IN  IF ~checkPortfolioExists(userId, portfolioId, readFails)
           THEN Respond(p, r, 404)
         ELSE IF portfolioId = "default"
           THEN Respond(p, r, 403)
         ELSE /\ req' = [req EXCEPT ![p] = r]
              /\ pc' = [pc EXCEPT ![p] = "delPortfolio"]
  /\ UNCHANGED <<portfolios, positions>>

\* deletePortfolio: the delete of the portfolio row.
deletePortfolioDelete(p, writeFails) ==
  /\ pc[p] = "delPortfolio"
  /\ IF writeFails
       THEN Respond(p, req[p], 500) /\ UNCHANGED portfolios
       ELSE /\ portfolios' = portfolios \ {<<req[p].userId, req[p].portfolioId>>}
            /\ pc' = [pc EXCEPT ![p] = "delQuery"]
            /\ UNCHANGED req
  /\ UNCHANGED positions

\* The tickers of the rows a query of the position table returns:
\* KeyConditionExpression "portfolioId = :portfolioId", FilterExpression
\* "userId = :userId".
PositionsOf(userId, portfolioId) ==
  {t \in Tickers : /\ Exists(<<portfolioId, t>>)
                   /\ positions[<<portfolioId, t>>].userId = userId}

\* deletePortfolio: the query of the portfolio's positions.
deletePortfolioQuery(p, readFails) ==
  /\ pc[p] = "delQuery"
  /\ LET r == req[p]
         items == PositionsOf(r.userId, r.portfolioId)
     IN  IF readFails THEN Respond(p, r, 500)
         ELSE IF items = {}
           THEN Respond(p, r, 200)
         ELSE /\ req' = [req EXCEPT ![p] = [r EXCEPT !.items = items]]
              /\ pc' = [pc EXCEPT ![p] = "delRows"]
  /\ UNCHANGED <<portfolios, positions>>

\* deletePortfolio: the deletes of the rows found, issued together and
\* awaited by one Promise.all; those of failed raise, the others are done.
deletePortfolioRows(p, failed) ==
  /\ pc[p] = "delRows"
  /\ failed \subseteq req[p].items
  /\ LET r == req[p]
     IN  /\ positions' = [k \in Keys |->
                            IF k[1] = r.portfolioId /\ k[2] \in r.items \ failed
                              THEN NoRow ELSE positions[k]]
         /\ IF failed # {}
              THEN Respond(p, r, 500)
              ELSE Respond(p, [r EXCEPT !.deleted = Cardinality(r.items)], 200)
  /\ UNCHANGED portfolios

\* ------------------------------------------- getPositions and the page
\* The sort key orders the Items of a query: upper case before lower case.
TickerOrder == <<"AAPL", "MSFT", "aapl">>

\* JavaScript's Infinity: an integer outside the data, like NaN.
Infinity == 100000

\* (gainLoss / cost) * 100 in JavaScript, to the whole percent: a division
\* by zero gives NaN for 0 / 0 and an infinity otherwise.
Percent(gainLoss, cost) ==
  IF cost = 0
    THEN IF gainLoss = 0 THEN NaN
         ELSE IF gainLoss > 0 THEN Infinity ELSE -Infinity
    ELSE (gainLoss * 100) \div cost

\* positionUtils.ts: the position the page shows for a stored row.
transformPositionData(ticker, positionData) ==
  LET currentPrice == IF Truthy(positionData.currentPrice)
                        THEN positionData.currentPrice ELSE 0
      currentValue == positionData.shares * currentPrice
      gainLoss == currentValue - positionData.shares * positionData.purchasePrice
  IN  [ticker |-> ticker, shares |-> positionData.shares,
       purchasePrice |-> positionData.purchasePrice,
       currentPrice |-> currentPrice, currentValue |-> currentValue,
       gainLoss |-> gainLoss,
       gainLossPct |->
         IF positionData.purchasePrice > 0
           THEN Percent(gainLoss, positionData.shares * positionData.purchasePrice)
           ELSE 0]

\* positionsData.map(transformPositionData), in the order of the query.
transformPositionsData(table, items) ==
  LET tickers == SelectSeq(TickerOrder, LAMBDA t : t \in items)
  IN  [n \in 1..Len(tickers) |->
         transformPositionData(tickers[n], table[tickers[n]])]

\* The simulated fluctuation of at most 2 per cent, in whole units.
PriceChanges(currentPrice) ==
  {-((currentPrice * 2) \div 100), 0, (currentPrice * 2) \div 100}

\* positionUtils.ts: a shown position with its price moved and its derived
\* fields recomputed.
updateCurrentPrices(position, priceChange) ==
  LET newPrice == position.currentPrice + priceChange
      currentValue == newPrice * position.shares
      gainLoss == currentValue - position.shares * position.purchasePrice
  IN  [position EXCEPT !.currentPrice = newPrice,
                       !.currentValue = currentValue,
                       !.gainLoss = gainLoss,
                       !.gainLossPct =
                          Percent(gainLoss, position.shares * position.purchasePrice)]

RECURSIVE totalValue(_)
\* positions.reduce((sum, pos) => sum + pos.currentValue, 0)
totalValue(view) ==
  IF view = <<>> THEN 0 ELSE Head(view).currentValue + totalValue(Tail(view))

RECURSIVE totalCost(_)
\* positions.reduce((sum, pos) => sum + pos.purchasePrice * pos.shares, 0)
totalCost(view) ==
  IF view = <<>> THEN 0
  ELSE Head(view).purchasePrice * Head(view).shares + totalCost(Tail(view))

\* The summary of the portfolio page.
summary(view) ==
  LET totalGainLoss == totalValue(view) - totalCost(view)
  IN  [totalValue |-> totalValue(view), totalCost |-> totalCost(view),
       totalGainLoss |-> totalGainLoss,
       totalGainLossPct |->
         IF totalCost(view) > 0 THEN Percent(totalGainLoss, totalCost(view)) ELSE 0]

\* A request on one position or on the positions of a portfolio.
PositionRequest(op, userId, portfolioId, ticker) ==
  [NoRequest EXCEPT !.op = op, !.userId = userId, !.portfolioId = portfolioId,
                    !.ticker = ticker, !.pre = positions,
                    !.prePortfolios = portfolios]

\* getPositions: the portfolio check.
getPositionsStart(p, userId, portfolioId, readFails) ==
  /\ MayStart(p)
  /\ LET r == PositionRequest("getPositions", userId, portfolioId, "")
     IN  IF ~checkPortfolioExists(userId, portfolioId, readFails)
           THEN Respond(p, r, 404)
         ELSE /\ req' = [req EXCEPT ![p] = r]
              /\ pc' = [pc EXCEPT ![p] = "query"]
  /\ UNCHANGED <<portfolios, positions>>

\* getPositions: the query, and the page's transformation of its Items.
getPositionsQuery(p, readFails) ==
  /\ pc[p] = "query"
  /\ LET r == req[p]
         items == PositionsOf(r.userId, r.portfolioId)
         table == [t \in Tickers |-> positions[<<r.portfolioId, t>>]]
     IN  IF readFails THEN Respond(p, r, 500)
         ELSE Respond(p, [r EXCEPT !.items = items,
                                   !.view = transformPositionsData(table, items)],
                      200)
  /\ UNCHANGED <<portfolios, positions>>

\* --------------------------------------------------------- updatePosition
\* A field of the body is truthy: present, and neither 0 nor the empty
\* string; NaN stands for a non-numeric string, which is truthy.
Given(x) == x # Absent /\ x # 0

\* updatePosition: the portfolio check.
updatePositionStart(p, userId, portfolioId, ticker, updates, readFails) ==
  /\ MayStart(p)
  /\ LET r == [PositionRequest("update", userId, portfolioId, ticker)
                 EXCEPT !.updates = updates]
     IN  IF ~checkPortfolioExists(userId, portfolioId, readFails)
           THEN Respond(p, r, 404)
         ELSE /\ req' = [req EXCEPT ![p] = r]
              /\ pc' = [pc EXCEPT ![p] = "updateGet"]
  /\ UNCHANGED <<portfolios, positions>>

\* updatePosition: the read of the position, the owner check and the two
\* validations.
updatePositionGet(p, readFails) ==
  /\ pc[p] = "updateGet"
  /\ LET r == req[p]
         item == positions[<<r.portfolioId, r.ticker>>]
     IN  IF readFails THEN Respond(p, r, 500)
         ELSE IF item = NoRow \/ item.userId # r.userId
           THEN Respond(p, r, 404)
         ELSE IF Given(r.updates.shares) /\ isNaN(r.updates.shares)
           THEN Respond(p, r, 400)
         ELSE IF Given(r.updates.purchasePrice) /\ isNaN(r.updates.purchasePrice)
           THEN Respond(p, r, 400)
         ELSE /\ req' = [req EXCEPT ![p] = [r EXCEPT !.existing = item]]
              /\ pc' = [pc EXCEPT ![p] = "updatePut"]
  /\ UNCHANGED <<portfolios, positions>>

\* updates.purchasePrice || existingItem.Item.purchasePrice
currentPurchasePrice(r) ==
  IF Given(r.updates.purchasePrice) THEN r.updates.purchasePrice
  ELSE r.existing.purchasePrice

\* The row after the SET of updatePosition: every key of the body is
\* written, the current price when shares or purchasePrice is truthy.
UpdatedItem(p, item, r, mock) ==
  [item EXCEPT
     !.updatedAt = p,
     !.shares = IF r.updates.shares # Absent THEN r.updates.shares ELSE @,
     !.purchasePrice =
        IF r.updates.purchasePrice # Absent THEN r.updates.purchasePrice ELSE @,
     !.currentPrice =
        IF Given(r.updates.shares) \/ Given(r.updates.purchasePrice)
          THEN mock ELSE @]

\* updatePosition: the update, by key and without a condition.
updatePositionPut(p, mock, writeFails) ==
  /\ pc[p] = "updatePut"
  /\ LET r == req[p]
         key == <<r.portfolioId, r.ticker>>
     IN  IF writeFails
           THEN Respond(p, r, 500) /\ UNCHANGED positions
         ELSE /\ positions' = [positions EXCEPT
                   ![key] = UpdatedItem(p, positions[key], r, mock)]
              /\ Respond(p, r, 200)
  /\ UNCHANGED portfolios

\* --------------------------------------------------------- deletePosition
\* deletePosition: the portfolio check.
deletePositionStart(p, userId, portfolioId, ticker, readFails) ==
  /\ MayStart(p)
  /\ LET r == PositionRequest("deletePosition", userId, portfolioId, ticker)
     IN  IF ~checkPortfolioExists(userId, portfolioId, readFails)
           THEN Respond(p, r, 404)
         ELSE /\ req' = [req EXCEPT ![p] = r]
              /\ pc' = [pc EXCEPT ![p] = "deleteGet"]
  /\ UNCHANGED <<portfolios, positions>>

\* deletePosition: the read of the position and the owner check.
deletePositionGet(p, readFails) ==
  /\ pc[p] = "deleteGet"
  /\ LET r == req[p]
         item == positions[<<r.portfolioId, r.ticker>>]
     IN  IF readFails THEN Respond(p, r, 500)
         ELSE IF item = NoRow \/ item.userId # r.userId
           THEN Respond(p, r, 404)
         ELSE /\ req' = [req EXCEPT ![p] = [r EXCEPT !.existing = item]]
              /\ pc' = [pc EXCEPT ![p] = "deleteRow"]
  /\ UNCHANGED <<portfolios, positions>>

\* deletePosition: the delete, by key.
deletePositionDelete(p, writeFails) ==
  /\ pc[p] = "deleteRow"
  /\ LET r == req[p]
     IN  IF writeFails
           THEN Respond(p, r, 500) /\ UNCHANGED positions
         ELSE /\ positions' = [positions EXCEPT ![<<r.portfolioId, r.ticker>>] = NoRow]
              /\ Respond(p, r, 200)
  /\ UNCHANGED portfolios

\* ------------------------------------------------------------- behaviours
AllMocks == UNION {MockPrices(x) : x \in {0, 9, 10}}

\* The steps of addPosition, with the request drawn from the given bodies;
\* the request arrives when the slot is ready.
AddStep(p, ready, users, bodies) ==
  \/ \E u \in users, pid \in PortfolioIds, b \in bodies, f \in BOOLEAN :
       ready /\ addPositionStart(p, u, pid, b, f)
  \/ \E f \in BOOLEAN : addPositionGet(p, f)
  \/ \E f \in BOOLEAN, m \in AllMocks :
       m \in MockPrices(req[p].position.purchasePrice) /\ addPositionPut(p, m, f)

\* The steps of the import, with the document and the quote service's
\* answers drawn from the given sets.
ImportStep(p, ready, users, bodies, searches, quotes) ==
  \/ \E u \in users, pid \in PortfolioIds, b \in bodies, f \in BOOLEAN :
       ready /\ importStart(p, u, pid, b, f)
  \/ \E s \in searches, q \in quotes : enrichRow(p, s, q)
  \/ \E f \in BOOLEAN : saveRow(p, f)

\* The steps of the deployed import.
LegacyStep(p, ready, users, bodies) ==
  \/ \E u \in users, pid \in PortfolioIds, b \in bodies, f \in BOOLEAN :
       ready /\ legacyImportStart(p, u, pid, b, f)
  \/ \E f \in BOOLEAN, m \in AllMocks : legacySaveRow(p, m, f)

\* Requests of the interleaved and the sequential behaviours. In a body of
\* addPosition, shares NaN stands for a non-numeric string (truthy, and
\* Number() of it is NaN) and shares 0 also for a missing field.
SomeAddBodies ==
  { [ticker |-> "AAPL", shares |-> 2, purchasePrice |-> 10, currentPrice |-> 0],
    [ticker |-> "AAPL", shares |-> 0, purchasePrice |-> 10, currentPrice |-> 0],
    [ticker |-> "AAPL", shares |-> 2, purchasePrice |-> NaN, currentPrice |-> 0] }
SomeCsvLines == {<<"AAPL", "", "5", "9">>, <<"", "Acme", "5", "9">>}
SomeCsvBodies ==
  {[kind |-> "csv", header |-> Header4, lines |-> l] : l \in SeqsUpTo(SomeCsvLines, MaxRows)}
SomeSearches == {SearchFailed, Found(<<Q("AAPL", "EQUITY")>>), Found(<<Q("MSFT", "ETF")>>)}
SomeQuotes == {[found |-> TRUE, price |-> 7]}

\* Any interleaving of the requests.
Next ==
  \/ \E u \in Users : getPortfolios(u)
  \/ \E p \in PositionProcs : AddStep(p, TRUE, Users, SomeAddBodies)
  \/ \E p \in PositionProcs : ImportStep(p, TRUE, Users, SomeCsvBodies, {SearchFailed}, SomeQuotes)

Spec == Init /\ [][Next]_vars

\* No other request is in flight.
Alone(p) == \A q \in Procs \ {p} : pc[q] \in {"new", "done"}

\* One request at a time: a request arrives when no other is in flight.
NextSeq ==
  \/ \E u \in Users : getPortfolios(u)
  \/ \E p \in PositionProcs : AddStep(p, Alone(p), Users, SomeAddBodies)
  \/ \E p \in PositionProcs :
       ImportStep(p, Alone(p), Users, SomeCsvBodies, SomeSearches, SomeQuotes)

SeqSpec == Init /\ [][NextSeq]_vars

\* One addPosition, then imports of any document by either handler, one
\* request at a time.
NextImport ==
  \/ \E u \in Users : getPortfolios(u)
  \/ AddStep(1, TRUE, Users, SomeAddBodies)
  \/ \E p \in PositionProcs \ {1} :
       ImportStep(p, Alone(p), Users, CsvBodies, SearchResponses, QuoteResponses)
  \/ \E p \in PositionProcs \ {1} : LegacyStep(p, Alone(p), Users, HtmlBodies)

ImportSpec == Init /\ [][NextImport]_vars


\* The steps of getPortfolios as a request.
GetPortfoliosStep(p, ready, users) ==
  \/ \E u \in users, f \in BOOLEAN : ready /\ getPortfoliosQuery(p, u, f)
  \/ \E f \in BOOLEAN : getPortfoliosPut(p, f)

\* The steps of createPortfolio.
CreatePortfolioStep(p, ready, users, pids) ==
  \/ \E u \in users, pid \in pids, f \in BOOLEAN :
       ready /\ createPortfolioStart(p, u, pid, f)
  \/ \E f \in BOOLEAN : createPortfolioPut(p, f)

\* The steps of deletePortfolio.
DeletePortfolioStep(p, ready, users, pids) ==
  \/ \E u \in users, pid \in pids, f \in BOOLEAN :
       ready /\ deletePortfolioStart(p, u, pid, f)
  \/ \E f \in BOOLEAN : deletePortfolioDelete(p, f)
  \/ \E f \in BOOLEAN : deletePortfolioQuery(p, f)
  \/ \E failed \in SUBSET Tickers : deletePortfolioRows(p, failed)

\* The portfolio handlers and addPosition, one request at a time.
OneAddBody ==
  {[ticker |-> "AAPL", shares |-> 2, purchasePrice |-> 10, currentPrice |-> 0]}
NextPortfolio ==
  \E p \in Procs :
    \/ GetPortfoliosStep(p, Alone(p), Users)
    \/ CreatePortfolioStep(p, Alone(p), Users, PortfolioIds)
    \/ DeletePortfolioStep(p, Alone(p), Users, PortfolioIds)
    \/ AddStep(p, Alone(p), Users, OneAddBody)

PortfolioSpec == Init /\ [][NextPortfolio]_vars

\* A portfolio is created, then positions are added and imported while the
\* portfolio is deleted, in any interleaving.
TwoRowBodies ==
  {[kind |-> "csv", header |-> Header4,
    lines |-> <<(<<"AAPL", "", "5", "9">>), (<<"MSFT", "", "3", "0">>)>>]}
NextCascade ==
  \/ CreatePortfolioStep(1, TRUE, Users, {"p1"})
  \/ \E p \in Procs \ {1} : DeletePortfolioStep(p, TRUE, Users, {"p1"})
  \/ \E p \in Procs \ {1} : AddStep(p, TRUE, Users, OneAddBody)
  \/ \E p \in Procs \ {1} :
       ImportStep(p, TRUE, Users, TwoRowBodies, {SearchFailed}, SomeQuotes)

CascadeSpec == Init /\ [][NextCascade]_vars

\* The steps of getPositions, followed by the page's transformation.
GetPositionsStep(p, ready, users, pids) ==
  \/ \E u \in users, pid \in pids, f \in BOOLEAN :
       ready /\ getPositionsStart(p, u, pid, f)
  \/ \E f \in BOOLEAN : getPositionsQuery(p, f)

\* The steps of updatePosition, with the body drawn from the given updates.
UpdatePositionStep(p, ready, users, pids, tickers, bodies) ==
  \/ \E u \in users, pid \in pids, t \in tickers, b \in bodies, f \in BOOLEAN :
       ready /\ updatePositionStart(p, u, pid, t, b, f)
  \/ \E f \in BOOLEAN : updatePositionGet(p, f)
  \/ \E f \in BOOLEAN, m \in MockPrices(currentPurchasePrice(req[p])) :
       updatePositionPut(p, m, f)

\* The steps of deletePosition.
DeletePositionStep(p, ready, users, pids, tickers) ==
  \/ \E u \in users, pid \in pids, t \in tickers, f \in BOOLEAN :
       ready /\ deletePositionStart(p, u, pid, t, f)
  \/ \E f \in BOOLEAN : deletePositionGet(p, f)
  \/ \E f \in BOOLEAN : deletePositionDelete(p, f)

\* What the user types into the form of a new position: the ticker in
\* either letter case, the purchase price 0.
PositionAddBodies ==
  { [ticker |-> "AAPL", shares |-> 2, purchasePrice |-> 10, currentPrice |-> 0],
    [ticker |-> "AAPL", shares |-> 2, purchasePrice |-> 0, currentPrice |-> 0],
    [ticker |-> "aapl", shares |-> 2, purchasePrice |-> 10, currentPrice |-> 0] }

\* String.prototype.toUpperCase over the tickers of the model.
toUpperCase(value) == IF value = "aapl" THEN "AAPL" ELSE value

\* AddPositionModal.handleChange: what the form keeps of a typed value.
handleChange(name, value) == IF name = "ticker" THEN toUpperCase(value) ELSE value

\* The bodies the modal of the page submits.
ModalBodies ==
  {[b EXCEPT !.ticker = handleChange("ticker", b.ticker)] : b \in PositionAddBodies}

\* Bodies of updatePosition: shares 0, a number and a non-numeric string,
\* and the purchase price 0.
SomeUpdates ==
  { [shares |-> 0, purchasePrice |-> Absent],
    [shares |-> 3, purchasePrice |-> Absent],
    [shares |-> NaN, purchasePrice |-> Absent],
    [shares |-> Absent, purchasePrice |-> 0] }

\* Documents whose ticker cells are in either letter case.
MixedCaseBodies ==
  {[kind |-> "csv", header |-> Header4, lines |-> l] :
     l \in {<<<<"aapl", "", "5", "9">>>>, <<<<"AAPL", "", "5", "9">>>>}}

\* One user's adds, updates, deletes and imports of positions, one request
\* at a time, and then a read of the default portfolio by the page.
NextPosition ==
  \/ getPortfolios("u1")
  \/ \E p \in PositionProcs : AddStep(p, Alone(p), {"u1"}, ModalBodies)
  \/ \E p \in PositionProcs :
       UpdatePositionStep(p, Alone(p), {"u1"}, {"default"}, {"AAPL", "aapl"}, SomeUpdates)
  \/ \E p \in PositionProcs :
       DeletePositionStep(p, Alone(p), {"u1"}, {"default"}, {"AAPL", "aapl"})
  \/ \E p \in PositionProcs :
       ImportStep(p, Alone(p), {"u1"}, MixedCaseBodies, {SearchFailed}, SomeQuotes)
  \/ \E p \in Procs \ PositionProcs :
       GetPositionsStep(p, Alone(p), {"u1"}, {"default"})

PositionSpec == Init /\ [][NextPosition]_vars

\* One position added, then updates and deletes of it in any interleaving.
NextUpdateRace ==
  \/ getPortfolios("u1")
  \/ AddStep(1, TRUE, {"u1"}, OneAddBody)
  \/ \E p \in Procs \ {1} :
       UpdatePositionStep(p, TRUE, {"u1"}, {"default"}, {"AAPL"}, SomeUpdates)
  \/ \E p \in Procs \ {1} :
       DeletePositionStep(p, TRUE, {"u1"}, {"default"}, {"AAPL"})

UpdateRaceSpec == Init /\ [][NextUpdateRace]_vars

\* Documents whose rows resolve to one ticker: a row that names it and a
\* row that names the company, with different shares and prices.
SameTickerLines == {<<"AAPL", "", "5", "9">>, <<"", "Acme", "3", "0">>}
SameTickerBodies ==
  {[kind |-> "csv", header |-> Header4, lines |-> l] :
     l \in SeqsUpTo(SameTickerLines, MaxRows)}

\* One user's imports of such documents, one request at a time.
NextBatch ==
  \/ getPortfolios("u1")
  \/ \E p \in PositionProcs :
       ImportStep(p, Alone(p), {"u1"}, SameTickerBodies,
                  {SearchFailed, Found(<<Q("AAPL", "EQUITY")>>)}, QuoteResponses)

BatchSpec == Init /\ [][NextBatch]_vars

\* ================================================================ claims
Count(seq, x) == Cardinality({n \in 1..Len(seq) : seq[n] = x})
\* The request of slot p is the latest to have arrived.
Latest(p) == \A q \in Procs : q > p => pc[q] = "new"
Finished(p, op) == pc[p] = "done" /\ req[p].op = op
\* The "already exists" warnings of a result.
DuplicateWarnings(r) ==
  Cardinality({n \in 1..Len(r.results.warnings) : r.results.warnings[n].kind = "exists"})
\* The key the n-th enriched row of an import is put under.
RowKey(r, n) == <<r.portfolioId, r.enriched[n].ticker>>

\* C1: run one at a time, an addPosition or an import leaves every position
\* row that existed when it arrived exactly as it was.
C1_NoOverwrite ==
  \A p \in Procs :
    req[p].op \in {"add", "import"} /\ Latest(p) =>
      \A k \in Keys : req[p].pre[k] # NoRow => positions[k] = req[p].pre[k]

\* An import has met a row another request wrote, with other shares.
C1_Witness ==
  \E p \in Procs :
    /\ Finished(p, "import") /\ Latest(p)
    /\ \E n \in 1..Len(req[p].saveLog) :
         /\ req[p].saveLog[n] = "exists"
         /\ req[p].pre[RowKey(req[p], n)] # NoRow
         /\ req[p].pre[RowKey(req[p], n)].shares # req[p].enriched[n].shares

\* Two consecutive imports of one document into one portfolio.
SameBatchTwice(p, q) ==
  /\ q = p + 1
  /\ Finished(p, "import") /\ Finished(q, "import")
  /\ req[p].csv = req[q].csv
  /\ req[p].userId = req[q].userId
  /\ req[p].portfolioId = req[q].portfolioId
  /\ Latest(q)

EnrichedTickers(r) == [n \in 1..Len(r.enriched) |-> r.enriched[n].ticker]

C3_Original ==
  [][\A k \in Keys :
       positions[k] # NoRow /\ positions'[k] # NoRow =>
         positions'[k].createdAt = positions[k].createdAt]_vars

\* C4: a write of an import that fails, other than on its condition, adds one
\* to errors; the loop goes on to the last row; the rows written stay.
C4_StorageFailure ==
  \A p \in Procs :
    req[p].op = "import" =>
      /\ req[p].results.errors =
           (req[p].i - Len(req[p].enriched)) + Count(req[p].saveLog, "error")
      /\ pc[p] = "done" /\ req[p].status = 200 =>
           Len(req[p].saveLog) = Len(req[p].enriched)
      /\ Latest(p) =>
           \A n \in 1..Len(req[p].saveLog) :
             req[p].saveLog[n] = "added" =>
               /\ positions[RowKey(req[p], n)].createdAt = p
               /\ positions[RowKey(req[p], n)].shares = req[p].enriched[n].shares

\* The first write failed and the second row was written all the same.
C4_Witness ==
  \E p \in Procs :
    /\ Finished(p, "import") /\ req[p].status = 200
    /\ req[p].saveLog = <<"error", "added">>
    /\ req[p].results.errors = 1

\* C5 as stated: an import of a recognised kind into an existing portfolio
\* answers 200 whatever its rows hold.
C5_Original ==
  \A p \in Procs :
    Finished(p, "import") /\ req[p].csv.kind = "csv" /\ req[p].status # 404 =>
      req[p].status = 200

\* C6 as stated: a row whose key exists gives one warning naming the ticker
\* and adds to neither errors nor addedPositions, in either import handler.
C6_Original ==
  \A p \in Procs :
    /\ pc[p] = "done" /\ req[p].op \in {"import", "legacyImport"}
    /\ req[p].status = 200
    => /\ DuplicateWarnings(req[p]) = Count(req[p].saveLog, "exists")
       /\ req[p].results.addedPositions = Count(req[p].saveLog, "added")
       /\ req[p].results.errors =
            (req[p].i - Len(req[p].enriched)) + Count(req[p].saveLog, "error")

\* A data line with a ticker whose shares cell is empty.
MissingShares(values) == Len(values) = 4 /\ values[1] # "" /\ values[3] = ""
\* A data line with a ticker and shares.
WellFormed(values) ==
  Len(values) = 4 /\ values[1] # "" /\ Positive(parseFloat(values[3]))
\* A finished import of N lines, one of them without shares, the others well
\* formed, every quote obtained.
OneMalformedRow(p) ==
  /\ Finished(p, "import") /\ req[p].status = 200
  /\ Cardinality({n \in 1..Len(req[p].csv.lines) : MissingShares(req[p].csv.lines[n])}) = 1
  /\ \A n \in 1..Len(req[p].csv.lines) :
       MissingShares(req[p].csv.lines[n]) \/ WellFormed(req[p].csv.lines[n])
  /\ \A n \in 1..Len(req[p].lookups) : req[p].lookups[n].quote.found

\* C7 as stated: the malformed row counts in totalPositions, not in
\* validPositions.
C7_Original ==
  \A p \in Procs :
    OneMalformedRow(p) =>
      /\ req[p].results.totalPositions = Len(req[p].csv.lines)
      /\ req[p].results.validPositions = Len(req[p].csv.lines) - 1

\* Two lines, the first without shares, the second written.
C7_Witness ==
  \E p \in Procs :
    /\ OneMalformedRow(p)
    /\ Len(req[p].csv.lines) = MaxRows
    /\ MissingShares(req[p].csv.lines[1])
    /\ req[p].saveLog = <<"added">>
    /\ req[p].results.totalPositions = 1

\* C8: a candidate that carries a ticker and got no quote is enriched all the
\* same, with currentPrice = purchasePrice, and reaches the writer.
C8_TickerTrusted ==
  \A p \in Procs :
    req[p].op = "import" =>
      \A i \in 1..Len(req[p].lookups) :
        req[p].cands[i].ticker # "" /\ ~req[p].lookups[i].quote.found =>
          \E n \in 1..Len(req[p].enriched) :
            /\ req[p].rows[n] = i
            /\ req[p].enriched[n].ticker = req[p].cands[i].ticker
            /\ req[p].enriched[n].purchasePrice = req[p].cands[i].purchasePrice
            /\ req[p].enriched[n].currentPrice = req[p].enriched[n].purchasePrice
            /\ pc[p] = "done" => n <= Len(req[p].saveLog)

\* A row with a ticker, a price and no quote was written.
C8_Witness ==
  \E p \in Procs :
    /\ Finished(p, "import")
    /\ \E n \in 1..Len(req[p].saveLog) :
         /\ ~req[p].lookups[req[p].rows[n]].quote.found
         /\ req[p].enriched[n].purchasePrice > 0
         /\ req[p].saveLog[n] = "added"

RECURSIVE FirstOfType(_, _)
\* The symbol of the first result of the type, "" when there is none.
FirstOfType(quotes, quoteType) ==
  IF quotes = <<>> THEN ""
  ELSE IF Head(quotes).quoteType = quoteType THEN Head(quotes).symbol
  ELSE FirstOfType(Tail(quotes), quoteType)

\* The ticker the claims expect of a search answer, "" for a rejection.
ExpectedTicker(search) ==
  IF ~search.ok THEN ""
  ELSE IF FirstOfType(search.quotes, "EQUITY") # ""
    THEN FirstOfType(search.quotes, "EQUITY")
  ELSE FirstOfType(search.quotes, "ETF")

\* C9: a row with a company name and no ticker gets the symbol of the first
\* equity result, else of the first ETF result; with neither, or when the
\* search fails, the row is rejected.
C9_Resolution ==
  \A p \in Procs :
    req[p].op = "import" =>
      \A i \in 1..Len(req[p].lookups) :
        NeedsLookup(req[p].cands[i]) =>
          IF ExpectedTicker(req[p].lookups[i].search) = ""
            THEN \A n \in 1..Len(req[p].enriched) : req[p].rows[n] # i
            ELSE \E n \in 1..Len(req[p].enriched) :
                   /\ req[p].rows[n] = i
                   /\ req[p].enriched[n].ticker =
                        ExpectedTicker(req[p].lookups[i].search)

\* A row resolved to the ETF that follows a fund in the answer.
C9_Witness ==
  \E p \in Procs :
    /\ req[p].op = "import"
    /\ \E n \in 1..Len(req[p].enriched) :
         /\ NeedsLookup(req[p].cands[req[p].rows[n]])
         /\ req[p].lookups[req[p].rows[n]].search =
              Found(<<Q("AAPL", "MUTUALFUND"), Q("MSFT", "ETF")>>)
         /\ req[p].enriched[n].ticker = "MSFT"

\* The enriched rows whose quote was obtained.
ValidatedRows(r) ==
  {n \in 1..Len(r.enriched) : Validated(r.lookups[r.rows[n]].quote)}

\* C10: a row with no ticker whose company name resolves to nothing is not
\* enriched, hence never written; a warning names the company; the row counts
\* in totalPositions and not in validPositions.
C10_Unresolved ==
  \A p \in Procs :
    req[p].op = "import" =>
      /\ req[p].results.totalPositions = Len(req[p].cands)
      /\ req[p].results.validPositions = Cardinality(ValidatedRows(req[p]))
      /\ Len(req[p].saveLog) <= Len(req[p].enriched)
      /\ \A i \in 1..Len(req[p].lookups) :
           NeedsLookup(req[p].cands[i])
             /\ ExpectedTicker(req[p].lookups[i].search) = "" =>
               /\ \A n \in 1..Len(req[p].enriched) : req[p].rows[n] # i
               /\ \E w \in 1..Len(req[p].results.warnings) :
                    req[p].results.warnings[w] =
                      Warn("lookup failed", req[p].cands[i].companyName)

\* An import finished with an unresolved company row and a written row.
C10_Witness ==
  \E p \in Procs :
    /\ Finished(p, "import") /\ req[p].status = 200
    /\ Len(req[p].cands) = 2
    /\ NeedsLookup(req[p].cands[1])
    /\ req[p].lookups[1].search = Found(<<Q("AAPL", "MUTUALFUND")>>)
    /\ req[p].saveLog = <<"added">>
    /\ req[p].results.totalPositions = 2
    /\ req[p].results.validPositions = 1

\* A quote was obtained: the service answered with a price.
Obtained(quote) == quote.found /\ quote.price > 0
\* The warnings of a kind pushed for candidate i of an import.
WarningsFor(r, i, kind) ==
  {w \in 1..Len(r.results.warnings) :
     r.warnRows[w] = i /\ r.results.warnings[w].kind = kind}

\* C11: the enrichment replaces a row's purchasePrice by the quote price
\* exactly when the purchasePrice is zero and a quote was obtained, and pushes
\* one backfill warning for the ticker exactly then; otherwise the
\* purchasePrice is the one parsed and no backfill warning is pushed.
C11_Backfill ==
  \A p \in Procs :
    req[p].op = "import" =>
      \A n \in 1..Len(req[p].enriched) :
        LET i == req[p].rows[n]
            quote == req[p].lookups[i].quote
        IN  IF req[p].cands[i].purchasePrice = 0 /\ Obtained(quote)
              THEN /\ req[p].enriched[n].purchasePrice = quote.price
                   /\ Cardinality(WarningsFor(req[p], i, "backfill")) = 1
                   /\ \A w \in WarningsFor(req[p], i, "backfill") :
                        req[p].results.warnings[w].subject = req[p].enriched[n].ticker
              ELSE /\ req[p].enriched[n].purchasePrice = req[p].cands[i].purchasePrice
                   /\ WarningsFor(req[p], i, "backfill") = {}

\* A row without a price was written with the quote price as purchasePrice,
\* next to a row that kept its own price although a quote was obtained.
C11_Witness ==
  \E p \in Procs :
    /\ Finished(p, "import") /\ Latest(p)
    /\ req[p].saveLog = <<"added", "added">>
    /\ req[p].cands[1].purchasePrice = 0
    /\ req[p].lookups[1].quote.price = 7
    /\ positions[RowKey(req[p], 1)].purchasePrice = 7
    /\ req[p].cands[2].purchasePrice = 9
    /\ req[p].lookups[2].quote.price = 7
    /\ positions[RowKey(req[p], 2)].purchasePrice = 9

DeleteOfDefault(p) ==
  /\ Finished(p, "deletePortfolio")
  /\ req[p].portfolioId = "default"
  /\ <<req[p].userId, "default">> \in req[p].prePortfolios

\* C14 as stated: deletePortfolio on an existing default portfolio is always
\* answered 403 and leaves the portfolio row and every position row unchanged.
C14_Original ==
  \A p \in Procs :
    DeleteOfDefault(p) =>
      /\ req[p].status = 403
      /\ Latest(p) => positions = req[p].pre /\ portfolios = req[p].prePortfolios

\* C14 as amended: deletePortfolio on the default portfolio is answered 403,
\* or 404 when the existence check does not find the portfolio (it is missing
\* or the read failed); either way no portfolio row and no position row
\* changes, and a default portfolio seen by any request is never removed.
C14_DefaultKept ==
  /\ \A p \in Procs :
       Finished(p, "deletePortfolio") /\ req[p].portfolioId = "default" =>
         /\ req[p].status \in {403, 404}
         /\ <<req[p].userId, "default">> \notin req[p].prePortfolios =>
              req[p].status = 404
         /\ Latest(p) => positions = req[p].pre /\ portfolios = req[p].prePortfolios
  /\ \A p \in Procs, u \in Users :
       <<u, "default">> \in req[p].prePortfolios => <<u, "default">> \in portfolios

\* A deletePortfolio on a default portfolio that holds a position was refused.
C14_Witness ==
  \E p \in Procs :
    /\ DeleteOfDefault(p) /\ Latest(p)
    /\ req[p].status = 403
    /\ \E t \in Tickers : positions[<<"default", t>>].userId = req[p].userId

\* C16 as stated: once getPortfolios has answered 200 to a user, the user
\* has a portfolio "default", whatever came before.
C16_Original ==
  \A p \in Procs :
    Finished(p, "getPortfolios") /\ req[p].status = 200 =>
      <<req[p].userId, "default">> \in portfolios

\* The rows of an owner under a portfolio id.
RowsOf(table, userId, portfolioId) ==
  {t \in Tickers : table[<<portfolioId, t>>].userId = userId}

\* C15 as stated: when deletePortfolio answers 200, no position row of that
\* owner with that portfolioId is in the store, and deletedPositions is the
\* number of rows removed.
C15_Original ==
  [][\A p \in Procs :
       /\ pc[p] # "done" /\ pc'[p] = "done"
       /\ req'[p].op = "deletePortfolio" /\ req'[p].status = 200
       => /\ RowsOf(positions', req'[p].userId, req'[p].portfolioId) = {}
          /\ req'[p].deleted =
               Cardinality(RowsOf(positions, req'[p].userId, req'[p].portfolioId))]_vars

\* The request that takes the step.
Acting(p) == pc'[p] # pc[p] \/ req'[p] # req[p]

\* C17 as stated: under every interleaving, a position row of one user is
\* changed or removed only by a step of a request of that user, also when two
\* users own a portfolio with the same portfolioId.
C17_Original ==
  [][\A k \in Keys :
       positions[k] # NoRow /\ positions'[k] # positions[k] =>
         \E p \in Procs : Acting(p) /\ req'[p].userId = positions[k].userId]_vars

\* The body of the request is of no recognised content kind, or it is a
\* document without a single data row.
NothingToParse(r) == r.csv.kind = "other" \/ r.csv.lines = <<>>

\* C18 as stated: an import of an existing portfolio whose body is of no
\* recognised kind, or holds no row to parse, is answered 400 and adds
\* nothing to the position store.
C18_Original ==
  \A p \in Procs :
    /\ pc[p] = "done"
    /\ req[p].op \in {"import", "legacyImport"}
    /\ req[p].status # 404
    /\ NothingToParse(req[p])
    => /\ req[p].status = 400
       /\ req[p].results.addedPositions = 0

\* warnRows[n] is the input row the n-th warning of the result is about.
InRowOrder(rows) == \A m, n \in 1..Len(rows) : m < n => rows[m] <= rows[n]

\* C19 as stated: in the warnings of one import, every warning for row i
\* precedes every warning for row j whenever i < j.
C19_Original ==
  \A p \in Procs :
    Finished(p, "import") /\ req[p].status = 200 =>
      /\ Len(req[p].warnRows) = Len(req[p].results.warnings)
      /\ InRowOrder(req[p].warnRows)

\* C20 as stated: every stored row has an upper-case ticker, and no two rows
\* of one portfolio differ only in the letter case of their ticker.
C20_Original ==
  /\ \A k \in Keys : Exists(k) => k[2] = toUpperCase(k[2])
  /\ \A k1, k2 \in Keys :
       /\ Exists(k1) /\ Exists(k2)
       /\ k1[1] = k2[1]
       /\ toUpperCase(k1[2]) = toUpperCase(k2[2])
       => k1 = k2

\* The cost basis of a shown position.
CostBasis(position) == position.shares * position.purchasePrice

\* C13 as stated: for every stored lot the page reads, the percentage of a
\* position whose cost basis is 0 is the guarded 0, in transformPositionData,
\* in updateCurrentPrices and in the summary.
C13_Original ==
  \A p \in Procs :
    Finished(p, "getPositions") /\ req[p].status = 200 =>
      /\ \A n \in 1..Len(req[p].view) :
           CostBasis(req[p].view[n]) = 0 =>
             /\ req[p].view[n].gainLossPct = 0
             /\ \A c \in PriceChanges(req[p].view[n].currentPrice) :
                  updateCurrentPrices(req[p].view[n], c).gainLossPct = 0
      /\ summary(req[p].view).totalCost = 0 =>
           summary(req[p].view).totalGainLossPct = 0

\* C21 as stated: every stored position row has shares > 0.
C21_Original == \A k \in Keys : Exists(k) => Positive(positions[k].shares)

\* The cell of a data line under the n-th column of the header, empty when
\* the line stops before it.
CellOf(values, n) == IF n <= Len(values) THEN values[n] ELSE ""

\* The retention rule in the claim's words, for the four-column header: a
\* ticker or a company name, and shares that parse to a number above 0.
ShouldRetain(values) ==
  /\ CellOf(values, 1) # "" \/ CellOf(values, 2) # ""
  /\ Positive(parseFloat(CellOf(values, 3)))

\* C22 as stated: the parser keeps exactly the rows the rule retains, and a
\* row it does not keep is dropped without raising or affecting other rows.
C22_Original ==
  \A p \in Procs :
    Finished(p, "import") /\ req[p].csv.kind = "csv" /\ req[p].status # 404 =>
      /\ req[p].status # 500
      /\ Len(req[p].cands) =
           Cardinality({n \in 1..Len(req[p].csv.lines) :
                          ShouldRetain(req[p].csv.lines[n])})

\* C25 as stated: createPortfolio for an id the user already has answers 409.
C25_Original ==
  \A p \in Procs :
    /\ Finished(p, "createPortfolio")
    /\ <<req[p].userId, req[p].portfolioId>> \in req[p].prePortfolios
    => req[p].status = 409

\* No request is in flight.
Quiescent == \A p \in Procs : pc[p] \in {"new", "done"}

\* C26 as stated: in a quiescent state every position row belongs to an
\* existing portfolio of its owner.
C26_Original ==
  Quiescent =>
    \A k \in Keys : Exists(k) => <<positions[k].userId, k[1]>> \in portfolios

\* The caller's own row under a key when the request arrived.
OwnRow(r, key) == r.pre[key] # NoRow /\ r.pre[key].userId = r.userId

\* C27 as stated, against the run in which the other user's positions are
\* erased: run one at a time, addPosition answers 409 exactly when the caller
\* owns a row under the key, and an import reports a duplicate only for a key
\* the caller owns or an earlier row of the batch added.
C27_Original ==
  \A p \in Procs :
    /\ Finished(p, "add") /\ req[p].status \in {201, 409} =>
         (req[p].status = 409
            <=> OwnRow(req[p], <<req[p].portfolioId, req[p].position.ticker>>))
    /\ Finished(p, "import") =>
         \A n \in 1..Len(req[p].saveLog) :
           req[p].saveLog[n] = "exists" =>
             \/ OwnRow(req[p], RowKey(req[p], n))
             \/ \E m \in 1..(n - 1) : /\ RowKey(req[p], m) = RowKey(req[p], n)
                                      /\ req[p].saveLog[m] = "added"

\* C28: in every import result answered 200, every candidate is counted
\* once: addedPositions + errors + the duplicate warnings = totalPositions.
C28_Accounted ==
  \A p \in Procs :
    Finished(p, "import") /\ req[p].status = 200 =>
      req[p].results.addedPositions + req[p].results.errors
        + DuplicateWarnings(req[p]) = req[p].results.totalPositions

\* An import answered 200 with a row counted in errors and a duplicate.
C28_Witness ==
  \E p \in Procs :
    /\ Finished(p, "import") /\ req[p].status = 200
    /\ req[p].results.errors = 1
    /\ DuplicateWarnings(req[p]) = 1
    /\ req[p].results.totalPositions = MaxRows

\* C29 as stated: addedPositions <= validPositions <= totalPositions in
\* every import result.
C29_Original ==
  \A p \in Procs :
    Finished(p, "import") /\ req[p].status = 200 =>
      /\ req[p].results.addedPositions <= req[p].results.validPositions
      /\ req[p].results.validPositions <= req[p].results.totalPositions

\* C23 as stated: whatever deletePosition does meanwhile, updatePosition
\* creates no row: every row has its userId and was created by addPosition
\* or an import.
C23_Original ==
  \A k \in Keys :
    Exists(k) => positions[k].userId # "" /\ positions[k].createdAt # 0

\* The request has no portfolio row for its portfolioId.
NoPortfolioRow(r) == <<r.userId, r.portfolioId>> \notin portfolios

\* C24: a request on the positions of a portfolio the caller has no row for
\* is answered 404 by the step that checks the portfolio, the first of the
\* handler and the only one before a read or write of the position table,
\* and the position table is unchanged.
C24_NotFound ==
  [][\A p \in Procs :
       /\ pc[p] = "new" /\ pc'[p] # "new"
       /\ req'[p].op \in {"getPositions", "add", "update", "deletePosition", "import"}
       /\ NoPortfolioRow(req'[p])
       => /\ pc'[p] = "done"
          /\ req'[p].status = 404
          /\ positions' = positions]_vars

\* getPositions, an import and an update of a missing portfolio, answered.
C24_Witness ==
  /\ \E p \in Procs : Finished(p, "getPositions") /\ req[p].status = 404
                      /\ <<req[p].userId, req[p].portfolioId>> \notin req[p].prePortfolios
  /\ \E p \in Procs : Finished(p, "import") /\ req[p].status = 404
                      /\ NoPortfolioRow(req[p])
  /\ \E p \in Procs : Finished(p, "update") /\ req[p].status = 404
                      /\ <<req[p].userId, req[p].portfolioId>> \notin req[p].prePortfolios

\* The rows of a finished import all resolve to one ticker, which the
\* portfolio did not hold when the import arrived.
SameTickerBatch(p) ==
  /\ Finished(p, "import") /\ req[p].status = 200
  /\ Len(req[p].enriched) = MaxRows
  /\ \A n \in 1..Len(req[p].enriched) : RowKey(req[p], n) = RowKey(req[p], 1)
  /\ req[p].pre[RowKey(req[p], 1)] = NoRow

\* The stored row has the shares and the purchase price of the n-th row.
Persisted(p, n) ==
  /\ positions[RowKey(req[p], n)].createdAt = p
  /\ positions[RowKey(req[p], n)].shares = req[p].enriched[n].shares
  /\ positions[RowKey(req[p], n)].purchasePrice = req[p].enriched[n].purchasePrice

====
